---- MODULE Spec2Model ----
(***************************************************************************)
(* Model of the systematic-review pipeline of src/duplicados12.py (the     *)
(* .ris + .bib application).  src/duplicados9.py is the same pipeline      *)
(* restricted to .ris uploads: its filter_records, parse_ris,              *)
(* find_duplicates, check_similarity and apply_selection_criteria are      *)
(* textually the same functions, and its main script is the main script    *)
(* below with every uploaded file a .ris file.                             *)
(*                                                                         *)
(* Text is modelled by TLA+ strings, read character by character with      *)
(* SubSeq.  A Python value of a raw record field is a record               *)
(* [k, s, n]: k = "none" (key absent / None), k = "str" (the string s),    *)
(* k = "num" (the integer n).  A float64 similarity is modelled in fixed   *)
(* point, in thousandths (Milli).                                          *)
(***************************************************************************)
EXTENDS Integers, Sequences, FiniteSets, TLC

(***************************************************************************)
(* Bounds of the model.                                                    *)
(***************************************************************************)
\* Largest number of uploaded files in one run.
MaxFiles == 2
\* Largest number of raw records over all the files of one run.
MaxRecs == 3
\* Largest number of uploaded files in the runs that look at the selection.
MaxFilesSelect == 1

(***************************************************************************)
(* Python values.                                                          *)
(***************************************************************************)
None == [k |-> "none", s |-> "", n |-> 0]
Str(t) == [k |-> "str", s |-> t, n |-> 0]
Num(i) == [k |-> "num", s |-> "", n |-> i]

\* Python truthiness, as `if title and abstract and year` evaluates it.
truthy(v) ==
    CASE v.k = "none" -> FALSE
      [] v.k = "str" -> v.s # ""
      [] v.k = "num" -> v.n # 0

CharAt(t, i) == SubSeq(t, i, i)

\* Only(S): the element of a set of one element.  {e : x \in {d}} evaluates
\* d once for all its uses in e.
Only(S) == CHOOSE x \in S : TRUE

Chars(t) == {CharAt(t, a) : a \in 1..Len(t)}

Digits == "0123456789"
DigitChars == Chars(Digits)

IsDigit(c) == c \in DigitChars

DigitVal(c) == (CHOOSE d \in 1..10 : CharAt(Digits, d) = c) - 1

RECURSIVE AllDigits(_)
AllDigits(t) == t = "" \/ (IsDigit(Head(t)) /\ AllDigits(Tail(t)))

RECURSIVE DigitsValue(_)
DigitsValue(t) ==
    IF t = "" THEN 0
    ELSE DigitsValue(SubSeq(t, 1, Len(t) - 1)) * 10 + DigitVal(CharAt(t, Len(t)))

RECURSIVE lstrip(_)
lstrip(t) == IF t # "" /\ Head(t) = " " THEN lstrip(Tail(t)) ELSE t

RECURSIVE rstrip(_)
rstrip(t) ==
    IF t # "" /\ CharAt(t, Len(t)) = " " THEN rstrip(SubSeq(t, 1, Len(t) - 1)) ELSE t

\* Python's int(): a number converts to itself; a string converts when, with
\* the surrounding whitespace stripped, it is an optional sign and at least
\* one decimal digit, and raises ValueError otherwise.  [ok, val].
int(v) ==
    IF v.k = "num" THEN [ok |-> TRUE, val |-> v.n]
    ELSE IF v.k = "none" THEN [ok |-> FALSE, val |-> 0]
    ELSE LET t == rstrip(lstrip(v.s))
             signed == t # "" /\ Head(t) \in {"+", "-"}
             body == IF signed THEN Tail(t) ELSE t
             mag == DigitsValue(body)
         IN IF body # "" /\ AllDigits(body)
            THEN [ok |-> TRUE,
                  val |-> IF signed /\ Head(t) = "-" THEN 0 - mag ELSE mag]
            ELSE [ok |-> FALSE, val |-> 0]

(***************************************************************************)
(* filter_records and the parsers.  A valid row carries, beside its three  *)
(* columns, src = <<file, record>>: the position of the uploaded file and  *)
(* of the raw record in it.  src is the row's provenance, kept for the     *)
(* properties; no operation of the program reads it.                       *)
(***************************************************************************)
Row(f, j, title, abstract, fecha) ==
    [Titulo |-> title, Resumen |-> abstract, Fecha |-> fecha, src |-> <<f, j>>]

\* The loop of filter_records from record j on.  raised: int(year) raised.
RECURSIVE filter_loop(_, _, _, _, _)
filter_loop(f, records, j, valid, invalid) ==
    IF j > Len(records)
    THEN [raised |-> FALSE, valid |-> valid, invalid |-> invalid]
    ELSE LET record == records[j]
             title == record.title
             abstract == record.abstract
             year == record.year
         IN IF truthy(title) /\ truthy(abstract) /\ truthy(year)
            THEN IF int(year).ok
                 THEN filter_loop(f, records, j + 1,
                        Append(valid, Row(f, j, title, abstract, int(year).val)),
                        invalid)
                 ELSE [raised |-> TRUE, valid |-> valid, invalid |-> invalid]
            ELSE filter_loop(f, records, j + 1, valid, Append(invalid, record))

filter_records(f, records) == filter_loop(f, records, 1, <<>>, <<>>)

\* parse_ris([file]) for a decodable file: [df, invalid_count, error].  The
\* lists of filter_records are lost when it raises: the except clause only
\* reports the error.
parse_ris(f, file) ==
    IF file.content = "malformed"
    THEN [df |-> <<>>, invalid |-> 0, error |-> TRUE]
    ELSE LET r == filter_records(f, file.records)
         IN IF r.raised
            THEN [df |-> <<>>, invalid |-> 0, error |-> TRUE]
            ELSE [df |-> r.valid, invalid |-> Len(r.invalid), error |-> FALSE]

\* The loop over bib_database.entries in parse_bib, which appends to the
\* lists of parse_bib itself.
RECURSIVE bib_loop(_, _, _, _, _)
bib_loop(f, entries, j, valid, invalid) ==
    IF j > Len(entries)
    THEN [raised |-> FALSE, valid |-> valid, invalid |-> invalid]
    ELSE LET entry == entries[j]
             title == entry.title
             abstract == entry.abstract
             year == entry.year
         IN IF truthy(title) /\ truthy(abstract) /\ truthy(year)
            THEN IF int(year).ok
                 THEN bib_loop(f, entries, j + 1,
                        Append(valid, Row(f, j, title, abstract, int(year).val)),
                        invalid)
                 ELSE [raised |-> TRUE, valid |-> valid, invalid |-> invalid]
            ELSE bib_loop(f, entries, j + 1, valid, Append(invalid, entry))

\* parse_bib([file]) for a decodable file: what was appended before int(year)
\* raised stays in the lists that are returned.
parse_bib(f, file) ==
    IF file.content = "malformed"
    THEN [df |-> <<>>, invalid |-> 0, error |-> TRUE]
    ELSE LET r == bib_loop(f, file.records, 1, <<>>, <<>>)
         IN [df |-> r.valid, invalid |-> Len(r.invalid), error |-> r.raised]

(***************************************************************************)
(* find_duplicates and drop_duplicates.                                    *)
(***************************************************************************)
\* subset=['Título', 'Resumen']: the values compared, by equality.
Key(row) == <<row.Titulo, row.Resumen>>

\* df[mask]: the rows whose mask entry is True, in the order of df.
RECURSIVE BoolIndex(_, _, _)
BoolIndex(df, mask, j) ==
    IF j > Len(df) THEN <<>>
    ELSE (IF mask[j] THEN <<df[j]>> ELSE <<>>) \o BoolIndex(df, mask, j + 1)

\* keep='first' in the place of keep=False: the first row of a key is left out.
duplicated_after_first(df) ==
    [j \in 1..Len(df) |-> \E h \in 1..(j - 1) : Key(df[h]) = Key(df[j])]

\* df.duplicated(subset, keep=False): every row whose key another row has.
\* On an empty frame pandas returns an empty mask before it looks at subset.
duplicated_keep_false(df) ==
    [j \in 1..Len(df) |->
        \E h \in 1..Len(df) : h # j /\ Key(df[h]) = Key(df[j])]

\* keep='last' in the place of keep='first': every row whose key a later row
\* has.
duplicated_keep_last(df) ==
    [j \in 1..Len(df) |-> \E h \in (j + 1)..Len(df) : Key(df[h]) = Key(df[j])]

\* df.duplicated(subset, keep='first'): every row whose key an earlier row has.
duplicated_keep_first(df) ==
    [j \in 1..Len(df) |-> \E h \in 1..(j - 1) : Key(df[h]) = Key(df[j])]

find_duplicates(df) == BoolIndex(df, duplicated_keep_false(df), 1)

drop_duplicates(df) ==
    BoolIndex(df, [j \in 1..Len(df) |-> ~duplicated_keep_first(df)[j]], 1)

(***************************************************************************)
(* TfidfVectorizer(stop_words='english') on the two documents of one row,  *)
(* and cosine_similarity of the two rows of the matrix.                    *)
(***************************************************************************)
\* The texts are read as tuples of characters.  AsTuple makes of a function
\* on 1..n the tuple of its values, each worked out once.
AsTuple(f) == f \o <<>>

chars(t) == AsTuple([a \in 1..Len(t) |-> CharAt(t, a)])

UpperChars == "ABCDEFGHIJKLMNOPQRSTUVWXYZ"
LowerChars == "abcdefghijklmnopqrstuvwxyz"

UpperSet == Chars(UpperChars)
\* [A-Za-z0-9_]: \w over the characters of the model
WordChars == UpperSet \cup Chars(LowerChars) \cup DigitChars \cup {"_"}

IsUpper(c) == c \in UpperSet

LowerChar(c) ==
    IF IsUpper(c)
    THEN CharAt(LowerChars, CHOOSE a \in 1..Len(UpperChars) : CharAt(UpperChars, a) = c)
    ELSE c

\* str.lower(), on the characters
lower(cs) == AsTuple([a \in 1..Len(cs) |-> LowerChar(cs[a])])

IsWordChar(c) == c \in WordChars

\* token_pattern (?u)\b\w\w+\b from character a on: the maximal runs of two
\* or more word characters.  cur is the run being read.
RECURSIVE tokenize(_, _, _, _)
tokenize(cs, a, cur, acc) ==
    LET flushed == IF Len(cur) >= 2 THEN Append(acc, cur) ELSE acc
    IN IF a > Len(cs) THEN flushed
       ELSE IF IsWordChar(cs[a]) THEN tokenize(cs, a + 1, Append(cur, cs[a]), acc)
       ELSE tokenize(cs, a + 1, <<>>, flushed)

\* The words of sklearn's ENGLISH_STOP_WORDS that are written with the texts
\* of the model.
StopWords == {chars(w) : w \in {"the", "of", "and", "is", "in", "with"}}

NotStopWord(w) == w \notin StopWords

\* build_analyzer(): lowercase, tokenize, drop the stop words.
analyze(doc) ==
    Only({SelectSeq(tokenize(cs, 1, <<>>, <<>>), NotStopWord) : cs \in {lower(chars(doc))}})

Terms(toks) == {toks[j] : j \in 1..Len(toks)}

\* Term frequency of term in a tokenized document.
tf(toks, term) == Cardinality({j \in 1..Len(toks) : toks[j] = term})

\* One thousandth: the unit of the fixed-point numbers.
Milli == 1000

\* smooth idf over n = 2 documents, ln((1 + n) / (1 + df)) + 1, in
\* thousandths: 1 for a term of both documents, 1.405 for a term of one.
idf(docfreq) == IF docfreq = 2 THEN Milli ELSE 1405

RECURSIVE isqrt_between(_, _, _)
isqrt_between(x, lo, hi) ==
    IF lo >= hi THEN lo
    ELSE LET mid == (lo + hi + 1) \div 2
         IN IF mid * mid <= x THEN isqrt_between(x, mid, hi)
            ELSE isqrt_between(x, lo, mid - 1)

\* Floor of the square root.
isqrt(x) == isqrt_between(x, 0, 46340)

RECURSIVE SumOver(_, _)
SumOver(S, g) ==
    IF S = {} THEN 0
    ELSE LET e == CHOOSE e \in S : TRUE IN g[e] + SumOver(S \ {e}, g)

\* TfidfTransformer: the weight tf * idf of term t in document d, in
\* thousandths, d1 and d2 being the two tokenized documents.
weight(d, t, d1, d2) ==
    tf(d, t) * idf((IF t \in Terms(d1) THEN 1 ELSE 0) + (IF t \in Terms(d2) THEN 1 ELSE 0))

\* The Euclidean length of the row of document d, in thousandths.
l2_norm(d, d1, d2, vocabulary) ==
    isqrt(SumOver(vocabulary,
            [t \in vocabulary |-> weight(d, t, d1, d2) * weight(d, t, d1, d2)]))

\* norm='l2': the entry of term t in the row of d, of length norm; a row of
\* zeros is left as it is.
normalized(d, t, norm, d1, d2) ==
    IF norm = 0 THEN 0 ELSE (weight(d, t, d1, d2) * Milli) \div norm

\* cosine_similarity of the two rows, which are of length 1 or 0 already
cosine_similarity(d1, d2, vocabulary, norm1, norm2) ==
    SumOver(vocabulary,
        [t \in vocabulary |->
            normalized(d1, t, norm1, d1, d2) * normalized(d2, t, norm2, d1, d2)])
      \div Milli

\* fit_transform of the two analyzed documents: it raises ValueError when the
\* vocabulary is empty (no token of either document is left after the stop
\* words).  [raised, sim], sim in thousandths.
fit_transform_cosine(d1, d2, vocabulary) ==
    IF vocabulary = {}
    THEN [raised |-> TRUE, sim |-> 0]
    ELSE [raised |-> FALSE,
          sim |-> Only({cosine_similarity(d1, d2, vocabulary, norm1, norm2) :
                          norm1 \in {l2_norm(d1, d1, d2, vocabulary)},
                          norm2 \in {l2_norm(d2, d1, d2, vocabulary)}})]

\* The body of the loop of check_similarity for one row.
similarity(title, abstract) ==
    Only({Only({fit_transform_cosine(d1, d2, vocabulary) :
                  vocabulary \in {Terms(d1) \cup Terms(d2)}}) :
            d1 \in {analyze(title)}, d2 \in {analyze(abstract)}})

WithSimilitud(row, sim) ==
    [Titulo |-> row.Titulo, Resumen |-> row.Resumen, Fecha |-> row.Fecha,
     src |-> row.src, Similitud |-> sim]

\* The loop of check_similarity from row j on: the list `similarities`.
RECURSIVE similarities(_, _)
similarities(df, j) ==
    IF j > Len(df) THEN <<>>
    ELSE <<similarity(df[j].Titulo.s, df[j].Resumen.s)>> \o similarities(df, j + 1)

RECURSIVE assign_similitud(_, _, _)
assign_similitud(df, sims, j) ==
    IF j > Len(df) THEN <<>>
    ELSE <<WithSimilitud(df[j], sims[j].sim)>> \o assign_similitud(df, sims, j + 1)

\* The two selections at the end of check_similarity.
partition(scored, threshold) ==
    [incoherent |->
        BoolIndex(scored, [j \in 1..Len(scored) |-> scored[j].Similitud < threshold], 1),
     coherent |->
        BoolIndex(scored, [j \in 1..Len(scored) |-> scored[j].Similitud >= threshold], 1)]

\* check_similarity(df, threshold): [raised, df, incoherent, coherent], df being
\* the frame passed in, which gains the column Similitud.  An exception of the
\* loop leaves the function before anything is assigned.
check_similarity(df, threshold) ==
    Only({IF \E j \in 1..Len(df) : sims[j].raised
          THEN [raised |-> TRUE, df |-> df, incoherent |-> <<>>, coherent |-> <<>>]
          ELSE Only({[raised |-> FALSE, df |-> scored,
                      incoherent |-> partition(scored, threshold).incoherent,
                      coherent |-> partition(scored, threshold).coherent] :
                     scored \in {assign_similitud(df, sims, 1)}}) :
          sims \in {similarities(df, 1)}})

(***************************************************************************)
(* apply_selection_criteria.                                               *)
(***************************************************************************)
\* re.search of a literal pattern from character a on
RECURSIVE search(_, _, _)
search(cs, pat, a) ==
    IF a + Len(pat) - 1 > Len(cs) THEN FALSE
    ELSE SubSeq(cs, a, a + Len(pat) - 1) = pat \/ search(cs, pat, a + 1)

\* Series.str.contains(pat) with the default case=True
str_contains_cased(t, pat) == search(chars(t), chars(pat), 1)

\* Series.str.contains(pat, case=False) for one string and a literal pat
str_contains(t, pat) ==
    Only({search(cs, p, 1) : cs \in {lower(chars(t))}, p \in {lower(chars(pat))}})

YearMin == 2017
YearMax == 2024

keyword_filter(df) ==
    BoolIndex(df,
        [j \in 1..Len(df) |->
            str_contains(df[j].Resumen.s, "portfolio")
              \/ str_contains(df[j].Resumen.s, "optimization")], 1)

date_filter(kf) ==
    BoolIndex(kf,
        [j \in 1..Len(kf) |-> kf[j].Fecha >= YearMin /\ kf[j].Fecha <= YearMax], 1)

apply_selection_criteria(df) == Only({date_filter(kf) : kf \in {keyword_filter(df)}})

(***************************************************************************)
(* The uploads of a run.  A raw record is what rispy / bibtexparser hands  *)
(* over for one reference: [title, abstract, year], a key the parser did   *)
(* not produce being None (record.get(key, None)).                         *)
(***************************************************************************)
Raw(title, abstract, year) == [title |-> title, abstract |-> abstract, year |-> year]

\* Records with all three fields.
\* similarity 0.58; keyword; first year of the range
recA == Raw(Str("risk"), Str("portfolio risk"), Str("2017"))
\* the key of recA with another year, the year before the range
recB == Raw(Str("risk"), Str("portfolio risk"), Str("2016"))
\* the key of recA but for the case of one letter; last year of the range, as a number
recC == Raw(Str("risk"), Str("Portfolio risk"), Num(2024))
\* similarity 1; the other keyword, in capitals; the year after the range
recD == Raw(Str("OPTIMIZATION"), Str("OPTIMIZATION"), Str(" 2025 "))
\* stop words only
recE == Raw(Str("the"), Str("of the"), Str("2020"))
\* similarity 1; no keyword
recF == Raw(Str("risk"), Str("risk"), Str("2020"))
\* similarity 0, no term in common; keyword; year in the range
recI == Raw(Str("fund"), Str("portfolio"), Str("2021"))
\* Records the normalizer has to reject or fails on.
recNoTitle == Raw(None, Str("risk"), Str("2020"))
recEmptyAbstract == Raw(Str("risk"), Str(""), Str("2020"))
recNoYear == Raw(Str("risk"), Str("portfolio risk"), None)
recYearZero == Raw(Str("risk"), Str("portfolio risk"), Num(0))
recBadYear == Raw(Str("risk"), Str("portfolio risk"), Str("20x"))

File(ext, content, records) == [ext |-> ext, content |-> content, records |-> records]

\* The files, with a name ending in one of Exts, that hold exactly len raw
\* records of Pool: a file the parser reads ("parsed") and, with no record to
\* hand over, one it raises on ("malformed") and one whose bytes are not
\* UTF-8 ("undecodable").
Files(Pool, Exts, Failures, len) ==
    {File(ext, "parsed", recs) : ext \in Exts, recs \in [1..len -> Pool]}
    \cup (IF len = 0
          THEN {File(ext, content, <<>>) : ext \in Exts, content \in Failures}
          ELSE {})

\* The uploads of at most m files holding at most b raw records together.
RECURSIVE Uploads(_, _, _, _, _)
Uploads(Pool, Exts, Failures, m, b) ==
    IF m = 0 THEN {<<>>}
    ELSE {<<>>} \cup
         UNION {{<<file>> \o rest :
                    file \in Files(Pool, Exts, Failures, len),
                    rest \in Uploads(Pool, Exts, Failures, m - 1, b - len)} :
                len \in 0..b}

(***************************************************************************)
(* State of one run of the script.                                         *)
(***************************************************************************)
VARIABLES
    uploaded_files,  \* st.file_uploader's list, in upload order
    pc,              \* "files", "aggregate", "duplicates", "similarity",
                     \* "selection", "done", or "crashed" (uncaught exception)
    i,               \* position of the next file of `for file in uploaded_files`
    valid_ris_df,
    valid_bib_df,
    total_invalid,
    combined_df,
    duplicates_df,
    incoherent_df,
    coherent_df,
    selected_df,
    errors,          \* number of st.error messages
    report,          \* the counts written with st.write, by name
    invoked,         \* the stage functions called so far
    raw_count        \* raw records handed to the normalizer so far

vars == <<uploaded_files, pc, i, valid_ris_df, valid_bib_df, total_invalid,
          combined_df, duplicates_df, incoherent_df, coherent_df, selected_df,
          errors, report, invoked, raw_count>>

InitWith(Pool, Exts, Failures, m) ==
    /\ uploaded_files \in Uploads(Pool, Exts, Failures, m, MaxRecs)
    /\ pc = IF uploaded_files = <<>> THEN "done" ELSE "files"
    /\ i = 1
    /\ valid_ris_df = <<>>
    /\ valid_bib_df = <<>>
    /\ total_invalid = 0
    /\ combined_df = <<>>
    /\ duplicates_df = <<>>
    /\ incoherent_df = <<>>
    /\ coherent_df = <<>>
    /\ selected_df = <<>>
    /\ errors = 0
    /\ report = <<>>
    /\ invoked = {}
    /\ raw_count = 0

\* threshold=0.2 of the call in the main script, in thousandths.
Threshold == 200

\* One iteration of `for file in uploaded_files`.
ProcessFile ==
    /\ pc = "files"
    /\ i <= Len(uploaded_files)
    /\ \E file \in {uploaded_files[i]} :
       \E r \in {IF file.ext = ".ris" THEN parse_ris(i, file) ELSE parse_bib(i, file)} :
          IF file.content = "undecodable"
          THEN \* file.read().decode('utf-8') is outside the try
               /\ pc' = "crashed"
               /\ UNCHANGED <<i, valid_ris_df, valid_bib_df, total_invalid,
                              errors, raw_count>>
          ELSE /\ pc' = IF i = Len(uploaded_files) THEN "aggregate" ELSE "files"
               /\ i' = i + 1
               /\ valid_ris_df' =
                    IF file.ext = ".ris" THEN valid_ris_df \o r.df ELSE valid_ris_df
               /\ valid_bib_df' =
                    IF file.ext = ".bib" THEN valid_bib_df \o r.df ELSE valid_bib_df
               /\ total_invalid' = total_invalid + r.invalid
               /\ errors' = errors + (IF r.error THEN 1 ELSE 0)
               /\ raw_count' = raw_count + Len(file.records)
    /\ UNCHANGED <<uploaded_files, combined_df, duplicates_df, incoherent_df,
                   coherent_df, selected_df, report, invoked>>

\* pd.concat([valid_ris_df, valid_bib_df]).reset_index(drop=True) and the
\* three counts written after it.
Aggregate ==
    /\ pc = "aggregate"
    /\ combined_df' = valid_ris_df \o valid_bib_df
    /\ report' = report @@ ("total" :> Len(combined_df') + total_invalid)
                        @@ ("invalid" :> total_invalid)
                        @@ ("valid" :> Len(combined_df'))
    /\ pc' = "duplicates"
    /\ UNCHANGED <<uploaded_files, i, valid_ris_df, valid_bib_df, total_invalid,
                   duplicates_df, incoherent_df, coherent_df, selected_df,
                   errors, invoked, raw_count>>

\* The same step without `if not combined_df.empty`: check_similarity is
\* called on whatever is left.
Duplicates_unguarded ==
    /\ pc = "duplicates"
    /\ duplicates_df' = find_duplicates(combined_df)
    /\ combined_df' =
         IF duplicates_df' # <<>> THEN drop_duplicates(combined_df) ELSE combined_df
    /\ invoked' = invoked \cup {"find_duplicates"}
                    \cup (IF duplicates_df' # <<>> THEN {"drop_duplicates"} ELSE {})
    /\ report' = report @@ ("duplicates" :> Len(duplicates_df'))
                        @@ ("deduplicated" :> Len(combined_df'))
    /\ pc' = "similarity"
    /\ UNCHANGED <<uploaded_files, i, valid_ris_df, valid_bib_df, total_invalid,
                   incoherent_df, coherent_df, selected_df, errors, raw_count>>

\* find_duplicates, drop_duplicates when it found rows, and the count written
\* after them; then `if not combined_df.empty`.
Duplicates ==
    /\ pc = "duplicates"
    /\ duplicates_df' = find_duplicates(combined_df)
    /\ combined_df' =
         IF duplicates_df' # <<>> THEN drop_duplicates(combined_df) ELSE combined_df
    /\ invoked' = invoked \cup {"find_duplicates"}
                    \cup (IF duplicates_df' # <<>> THEN {"drop_duplicates"} ELSE {})
    /\ report' = report @@ ("duplicates" :> Len(duplicates_df'))
                        @@ ("deduplicated" :> Len(combined_df'))
    /\ pc' = IF combined_df' # <<>> THEN "similarity" ELSE "done"
    /\ UNCHANGED <<uploaded_files, i, valid_ris_df, valid_bib_df, total_invalid,
                   incoherent_df, coherent_df, selected_df, errors, raw_count>>

\* check_similarity(combined_df, threshold=0.2) and the two counts written
\* after it; then `if not coherent_df.empty`.
Similarity ==
    /\ pc = "similarity"
    /\ \E r \in {check_similarity(combined_df, Threshold)} :
          IF r.raised
          THEN /\ pc' = "crashed"
               /\ UNCHANGED <<combined_df, incoherent_df, coherent_df, report>>
          ELSE /\ combined_df' = r.df
               /\ incoherent_df' = r.incoherent
               /\ coherent_df' = r.coherent
               /\ report' = report @@ ("incoherent" :> Len(r.incoherent))
                                   @@ ("coherent" :> Len(r.coherent))
               /\ pc' = IF r.coherent # <<>> THEN "selection" ELSE "done"
    /\ invoked' = invoked \cup {"check_similarity"}
    /\ UNCHANGED <<uploaded_files, i, valid_ris_df, valid_bib_df, total_invalid,
                   duplicates_df, selected_df, errors, raw_count>>

\* apply_selection_criteria(coherent_df) and the count written after it.
Selection ==
    /\ pc = "selection"
    /\ selected_df' = apply_selection_criteria(coherent_df)
    /\ report' = report @@ ("selected" :> Len(selected_df'))
    /\ invoked' = invoked \cup {"apply_selection_criteria"}
    /\ pc' = "done"
    /\ UNCHANGED <<uploaded_files, i, valid_ris_df, valid_bib_df, total_invalid,
                   combined_df, duplicates_df, incoherent_df, coherent_df,
                   errors, raw_count>>

Next ==
    \/ ProcessFile
    \/ Aggregate
    \/ Duplicates
    \/ Similarity
    \/ Selection

(***************************************************************************)
(* Spec: runs of duplicados12.py over .ris and .bib uploads, whole or       *)
(* broken, of records the normalizer accepts, rejects or fails on.         *)
(***************************************************************************)
PoolNormalizer == {recA, recE, recNoTitle, recEmptyAbstract, recNoYear,
                   recYearZero, recBadYear}

Init == InitWith(PoolNormalizer, {".ris", ".bib"}, {"malformed", "undecodable"}, MaxFiles)

Spec == Init /\ [][Next]_vars

(***************************************************************************)
(* SpecEmpty: the same uploads over fewer records, for the runs that end    *)
(* normalization without a valid record.                                   *)
(***************************************************************************)
PoolEmpty == {recA, recNoTitle, recBadYear}

InitEmpty == InitWith(PoolEmpty, {".ris", ".bib"}, {"malformed", "undecodable"}, MaxFiles)

SpecEmpty == InitEmpty /\ [][Next]_vars

(***************************************************************************)
(* SpecDedup: uploads of records that share or nearly share their key.     *)
(***************************************************************************)
PoolDedup == {recA, recB, recC}

InitDedup == InitWith(PoolDedup, {".ris", ".bib"}, {}, MaxFiles)

SpecDedup == InitDedup /\ [][Next]_vars

(***************************************************************************)
(* SpecSelect: .ris uploads (the uploads duplicados9.py accepts) of records *)
(* on either side of the threshold, of the keywords and of the year range. *)
(***************************************************************************)
PoolSelect == {recA, recB, recC, recD, recF, recI}

InitSelect == InitWith(PoolSelect, {".ris"}, {}, MaxFilesSelect)

SpecSelect == InitSelect /\ [][Next]_vars

(***************************************************************************)
(* Properties.                                                             *)
(***************************************************************************)
\* What the Duplicate Resolver is given: the aggregated collection.
Input == valid_ris_df \o valid_bib_df

\* A row without the column Similitud.
Base(row) ==
    [Titulo |-> row.Titulo, Resumen |-> row.Resumen, Fecha |-> row.Fecha, src |-> row.src]

\* Same (title, abstract) key: the two strings are equal, letter for letter.
SameKey(r1, r2) == r1.Titulo.s = r2.Titulo.s /\ r1.Resumen.s = r2.Resumen.s

Occurrences(df, row) == {j \in 1..Len(df) : SameKey(df[j], row)}

\* Normalization is over: the three counts after pd.concat are written.
Normalized == "valid" \in DOMAIN report

\* The files the loop has been through.
Processed == 1..(i - 1)

Records(f) == uploaded_files[f].records

\* The record has a non-empty title, a non-empty abstract and a year.
AllPresent(rec) == truthy(rec.title) /\ truthy(rec.abstract) /\ truthy(rec.year)

\* The year is there but does not convert to an integer.
BadYear(rec) == AllPresent(rec) /\ ~int(rec.year).ok

\* The per-file error handler ran for file f.
Failed(f) ==
    \/ uploaded_files[f].content = "malformed"
    \/ \E j \in 1..Len(Records(f)) : BadYear(Records(f)[j])

RowsOf(f) ==
    {j \in 1..Len(valid_ris_df) : valid_ris_df[j].src[1] = f}
      \cup {Len(valid_ris_df) + j : j \in {h \in 1..Len(valid_bib_df) : valid_bib_df[h].src[1] = f}}

\* C1: the deduplicated collection holds exactly one record for each
\* (title, abstract) key of its input, that record is the first of the input
\* with the key (its year included), the records kept are in the order of
\* the input, and no two of them share a key.
C1_DedupKeepsFirst ==
    "find_duplicates" \in invoked =>
        /\ \A j \in 1..Len(Input) :
              Cardinality(Occurrences(combined_df, Input[j])) = 1
        /\ \A h \in 1..Len(combined_df) :
              \E j \in 1..Len(Input) :
                 /\ Base(combined_df[h]) = Input[j]
                 /\ \A e \in 1..(j - 1) : ~SameKey(Input[e], Input[j])
        /\ \A h, h2 \in 1..Len(combined_df) :
              h < h2 =>
                 \E j, j2 \in 1..Len(Input) :
                    /\ j < j2
                    /\ Base(combined_df[h]) = Input[j]
                    /\ Base(combined_df[h2]) = Input[j2]
        /\ \A h, h2 \in 1..Len(combined_df) :
              h # h2 => ~SameKey(combined_df[h], combined_df[h2])

\* A key came twice with two different years, drop_duplicates ran, and a
\* record of another key is kept beside the first of the two.
C1_Witness ==
    /\ "drop_duplicates" \in invoked
    /\ Len(combined_df) >= 2
    /\ \E j, j2 \in 1..Len(Input) :
          j < j2 /\ SameKey(Input[j], Input[j2]) /\ Input[j].Fecha # Input[j2].Fecha

\* C2: the selection is exactly the records of the coherent collection whose
\* abstract contains "portfolio" or "optimization", whatever the case of the
\* letters, and whose year is from 2017 to 2024; no record outside the coherent
\* collection (incoherent, removed as a duplicate) is selected.
SameLetter(c, d) ==
    \/ c = d
    \/ \E a \in 1..Len(UpperChars) :
          {c, d} = {CharAt(UpperChars, a), CharAt(LowerChars, a)}

Contains(t, word) ==
    \E at \in 1..(Len(t) - Len(word) + 1) :
       \A q \in 1..Len(word) : SameLetter(CharAt(t, at + q - 1), CharAt(word, q))

Qualifies(row) ==
    /\ Contains(row.Resumen.s, "portfolio") \/ Contains(row.Resumen.s, "optimization")
    /\ row.Fecha >= 2017
    /\ row.Fecha <= 2024

C2_SelectionExact ==
    "apply_selection_criteria" \in invoked =>
        /\ \A j \in 1..Len(coherent_df) :
              Qualifies(coherent_df[j]) <=>
                 \E h \in 1..Len(selected_df) : selected_df[h] = coherent_df[j]
        /\ \A h \in 1..Len(selected_df) :
              /\ \E j \in 1..Len(coherent_df) : selected_df[h] = coherent_df[j]
              /\ \E j \in 1..Len(combined_df) : selected_df[h] = combined_df[j]
              /\ \A j \in 1..Len(incoherent_df) :
                    selected_df[h].src # incoherent_df[j].src
        /\ \A h, h2 \in 1..Len(selected_df) :
              h # h2 => selected_df[h].src # selected_df[h2].src

\* The filter ran on a coherent collection of which it kept a part, beside
\* an incoherent record that has the keyword and the year.
C2_Witness ==
    /\ "apply_selection_criteria" \in invoked
    /\ Len(selected_df) >= 1
    /\ Len(selected_df) < Len(coherent_df)
    /\ \E j \in 1..Len(incoherent_df) : Qualifies(incoherent_df[j])

\* C3: check_similarity partitions its input: every record is in exactly one
\* of incoherent and coherent, the two counts add up to the count of the
\* input, the incoherent records are those of similarity below the threshold
\* and the coherent ones those of similarity at or above it.
C3_Partition ==
    "check_similarity" \in invoked =>
        /\ Len(incoherent_df) + Len(coherent_df) = Len(combined_df)
        /\ \A j \in 1..Len(combined_df) :
              (\E h \in 1..Len(incoherent_df) : incoherent_df[h].src = combined_df[j].src)
                 # (\E h \in 1..Len(coherent_df) : coherent_df[h].src = combined_df[j].src)
        /\ \A h \in 1..Len(incoherent_df) : incoherent_df[h].Similitud < Threshold
        /\ \A h \in 1..Len(coherent_df) : coherent_df[h].Similitud >= Threshold

\* C4: the records placed in valid and the invalid count add up to the raw
\* records handed to the normalizer, over all the files of the run.
C4_Completeness ==
    Len(valid_ris_df) + Len(valid_bib_df) + total_invalid = raw_count

\* C5: a record whose year is there but does not convert to an integer is
\* dropped and counted as invalid, and the other records of its file are
\* classified as if it were not there: of the files read so far, valid holds
\* the records with the three fields and a convertible year, and the invalid
\* count is the number of all the others.
Accepted(f) ==
    {j \in 1..Len(Records(f)) : AllPresent(Records(f)[j]) /\ int(Records(f)[j].year).ok}

C5_BadYearIsInvalid ==
    /\ Len(valid_ris_df) + Len(valid_bib_df)
          = SumOver(Processed, [f \in Processed |-> Cardinality(Accepted(f))])
    /\ total_invalid
          = SumOver(Processed,
                [f \in Processed |-> Len(Records(f)) - Cardinality(Accepted(f))])

\* C6, as claimed: when normalization ends without a valid record, none of
\* the stages 3 to 5 is run, no exception escapes, and the run ends with zero
\* written for the valid, duplicate, incoherent, coherent and selected counts.
C6_Original ==
    (Normalized /\ report["valid"] = 0) =>
        /\ invoked = {}
        /\ pc # "crashed"
        /\ pc = "done" =>
              \A name \in {"valid", "duplicates", "incoherent", "coherent", "selected"} :
                 name \in DOMAIN report /\ report[name] = 0

\* C6, amended: when normalization ends without a valid record,
\* find_duplicates is still called, on the empty collection, and returns no
\* row; drop_duplicates, check_similarity and apply_selection_criteria are not
\* called, no exception escapes, and the run ends with zero written for the
\* valid, duplicate and deduplicated counts and nothing written for the
\* incoherent, coherent and selected counts.
C6_EmptyRun ==
    (Normalized /\ report["valid"] = 0) =>
        /\ invoked \subseteq {"find_duplicates"}
        /\ pc \in {"duplicates", "done"}
        /\ combined_df = <<>> /\ duplicates_df = <<>>
        /\ incoherent_df = <<>> /\ coherent_df = <<>> /\ selected_df = <<>>
        /\ pc = "done" =>
              /\ invoked = {"find_duplicates"}
              /\ report["duplicates"] = 0
              /\ report["deduplicated"] = 0
              /\ DOMAIN report \cap {"incoherent", "coherent", "selected"} = {}

\* A run of two files, one that failed and one with a record that was
\* counted invalid, has ended without a valid record.
C6_Witness ==
    /\ pc = "done"
    /\ Len(uploaded_files) = 2
    /\ Normalized
    /\ report["valid"] = 0
    /\ errors >= 1
    /\ total_invalid >= 1

\* C7: the aggregated collection lists the valid records in arrival order:
\* by the position of their file in the upload, then by their position in
\* the file.
C7_ArrivalOrder ==
    Normalized =>
        \A h, h2 \in 1..Len(combined_df) :
           h < h2 =>
              \/ combined_df[h].src[1] < combined_df[h2].src[1]
              \/ /\ combined_df[h].src[1] = combined_df[h2].src[1]
                 /\ combined_df[h].src[2] < combined_df[h2].src[2]

\* C8: the duplicate group holds exactly the records whose (title, abstract)
\* key, compared letter for letter, occurs at least twice in the collection:
\* every occurrence of such a key, the first included, and no record of a key
\* that occurs once.
C8_DuplicateGroup ==
    "find_duplicates" \in invoked =>
        /\ \A j \in 1..Len(Input) :
              Cardinality(Occurrences(Input, Input[j])) >= 2 <=>
                 \E h \in 1..Len(duplicates_df) : duplicates_df[h] = Input[j]
        /\ \A h \in 1..Len(duplicates_df) :
              \E j \in 1..Len(Input) : duplicates_df[h] = Input[j]
        /\ Len(duplicates_df)
              = Cardinality({j \in 1..Len(Input) :
                               Cardinality(Occurrences(Input, Input[j])) >= 2})

\* A key came three times, with two different years, and the three records
\* are in the group.
C8_Witness ==
    /\ "find_duplicates" \in invoked
    /\ Len(duplicates_df) = 3
    /\ SameKey(duplicates_df[1], duplicates_df[2])
    /\ SameKey(duplicates_df[2], duplicates_df[3])
    /\ duplicates_df[1].Fecha # duplicates_df[2].Fecha

\* C9: a file for which the per-file error handler ran (the parser raised, or
\* the integer conversion of a year did) contributes nothing, neither to valid
\* nor to the invalid count, and the other files contribute all their
\* records.
C9_FailedFileContributesNothing ==
    /\ \A f \in Processed :
          Cardinality(RowsOf(f)) = IF Failed(f) THEN 0 ELSE Cardinality(Accepted(f))
    /\ total_invalid
          = SumOver(Processed,
                [f \in Processed |->
                    IF Failed(f) THEN 0
                    ELSE Len(Records(f)) - Cardinality(Accepted(f))])

\* C10: a record placed in valid has a non-empty title, a non-empty abstract
\* and an integer year, and a record counted as invalid lacks one of the
\* three: title missing or empty, abstract missing or empty, or no integer
\* year.
HasText(v) == v.k = "str" /\ v.s # ""

HasIntegerYear(rec) == rec.year.k = "num" \/ (rec.year.k = "str" /\ int(rec.year).ok)

Lacking(f) ==
    {j \in 1..Len(Records(f)) :
        ~(HasText(Records(f)[j].title) /\ HasText(Records(f)[j].abstract)
            /\ HasIntegerYear(Records(f)[j]))}

C10_Validity ==
    /\ \A j \in 1..Len(Input) :
          HasText(Input[j].Titulo) /\ HasText(Input[j].Resumen) /\ Input[j].Fecha \in Int
    /\ total_invalid
          <= SumOver(Processed, [f \in Processed |-> Cardinality(Lacking(f))])

====
